---- MODULE Spec2Model ----
\* The kubesaw cleaner (src/src/main.rs, with the same functions repeated in
\* src/src/crds.rs) as a state machine: one run of run() against a cluster,
\* one action per awaited API call, the synchronous code after a call folded
\* into the action of that call.
EXTENDS Integers, Sequences, FiniteSets, TLC

VARIABLES
    webhooks,     \* cluster: names of the ValidatingWebhookConfigurations that exist
    crds,         \* cluster: CRD name -> [labels, versions, present]
    crs,          \* cluster: CRD name -> sequence of custom resource instances
    pc,           \* run(): the await the task is suspended at
    result,       \* run(): "none" while running, then "Ok" or "Err"
    host_crds,    \* run(): the list returned for the host label
    member_crds,  \* run(): the list returned for the member label
    pos,          \* run(): position of the current crd in host_crds ++ member_crds
    seen,         \* run(): names already yielded by unique_by
    version,      \* patch_crs(): the resolved storage version (an Option)
    items,        \* patch_crs(): the (namespace, name) pairs still to visit
    object,       \* patch_crs(): the object fetched by get, finalizers filtered
    calls,        \* history: the API calls issued so far in this run, with their outcome
    errs,         \* history: the error! records written so far in this run
    prev,         \* history: the calls and the result of the run before this one
    ext           \* environment: the number of writes by other clients so far

vars == <<webhooks, crds, crs, pc, result, host_crds, member_crds, pos, seen,
          version, items, object, calls, errs, prev, ext>>

cluster == <<webhooks, crds, crs>>

\* What no step of run() touches: the record of an earlier run, the other clients.
env == <<prev, ext>>

-----------------------------------------------------------------------------
\* Bounds of the model.

\* longest instance list of a CRD in the run family of initial states
MaxInst == 2
\* longest finalizer list in the finalizer family of initial states
MaxLen == 4
\* longest version list in the version family of initial states
MaxVersions == 2
\* most writes by other clients during one run
MaxExt == 1

-----------------------------------------------------------------------------
\* Constants of the program.

TargetFinalizer == "finalizer.toolchain.dev.openshift.com"
WebhookName == "users.spacebindingrequests.webhook.sandbox"
HostLabel == "operators.coreos.com/toolchain-host-operator.toolchain-host-operator"
MemberLabel == "operators.coreos.com/toolchain-member-operator.toolchain-member-operator"

\* Option<T>: None and Some(x), over strings and over sequences.
NoneStr == [some |-> FALSE, v |-> ""]
NoneSeq == [some |-> FALSE, v |-> <<>>]
Some(x) == [some |-> TRUE, v |-> x]

\* The CRDs of the cluster, in the order a list call returns them (by name).
CrdOrder == <<"c1", "c2">>
CrdNames == {CrdOrder[i] : i \in 1..Len(CrdOrder)}


-----------------------------------------------------------------------------
\* Pure steps of patch_crs and run.

\* crd.spec.versions.iter().find(|v| v.storage).map(|v| v.name.clone()):
\* the name of the first entry flagged storage, None when there is none.
RECURSIVE find_storage(_)
find_storage(versions) ==
    IF versions = <<>> THEN NoneStr
    ELSE IF Head(versions).storage THEN Some(Head(versions).name)
    ELSE find_storage(Tail(versions))

\* A patch that clears the whole finalizer list.
new_finalizers_none(finalizers) == <<>>

\* A filter that stops at the first match: only the first occurrence is removed.
RECURSIVE new_finalizers_first(_)
new_finalizers_first(finalizers) ==
    IF finalizers = <<>> THEN <<>>
    ELSE IF Head(finalizers) # TargetFinalizer
         THEN <<Head(finalizers)>> \o new_finalizers_first(Tail(finalizers))
         ELSE Tail(finalizers)

\* finalizers.iter().filter(|f| *f != TARGET).cloned().collect()
RECURSIVE new_finalizers(_)
new_finalizers(finalizers) ==
    IF finalizers = <<>> THEN <<>>
    ELSE IF Head(finalizers) # TargetFinalizer
         THEN <<Head(finalizers)>> \o new_finalizers(Tail(finalizers))
         ELSE new_finalizers(Tail(finalizers))

\* A map that fills in an empty string for a missing namespace or name.
filter_map_default(list) ==
    [i \in 1..Len(list) |-> [namespace |-> list[i].namespace.v, name |-> list[i].name.v]]

\* .iter().filter_map(|cr| Some((cr.metadata.namespace?, cr.metadata.name?))):
\* the (namespace, name) pairs of the listed objects that have both.
RECURSIVE filter_map(_)
filter_map(list) ==
    IF list = <<>> THEN <<>>
    ELSE IF Head(list).namespace.some /\ Head(list).name.some
         THEN <<[namespace |-> Head(list).namespace.v, name |-> Head(list).name.v]>>
              \o filter_map(Tail(list))
         ELSE filter_map(Tail(list))

\* host_crds.iter().chain(member_crds.iter())
chain(host, member) == host \o member

\* The chain without unique_by: every element is yielded.
next_unique_all(ch, p, used) == IF p <= Len(ch) THEN p ELSE 0

\* unique_by(|crd| &crd.metadata.name): the position at or after p of the next
\* element whose name was not yielded before, 0 when the iterator is exhausted.
next_unique(ch, p, used) ==
    IF \E i \in p..Len(ch) : ch[i].name \notin used
    THEN CHOOSE i \in p..Len(ch) :
            /\ ch[i].name \notin used
            /\ \A j \in p..(i - 1) : ch[j].name \in used
    ELSE 0

-----------------------------------------------------------------------------
\* The API server, as the client sees it.

\* crds.list(&lp) with an Exists(label) selector: the CRDs that exist and carry
\* the label, by name; each element is the object as read (name and versions).
api_list_crds(label) ==
    LET has(n) == crds[n].present /\ label \in crds[n].labels
        names == SelectSeq(CrdOrder, has)
    IN [i \in 1..Len(names) |->
            [name |-> names[i], versions |-> crds[names[i]].versions]]

\* The version of a CRD is reachable when the CRD serves it.
served(crd, ver) ==
    \E i \in 1..Len(crds[crd].versions) :
        crds[crd].versions[i].name = ver /\ crds[crd].versions[i].served

\* The positions of the instances of crd with this namespace and name.
cr_index(crd, namespace, name) ==
    {i \in 1..Len(crs[crd]) :
        crs[crd][i].namespace = Some(namespace) /\ crs[crd][i].name = Some(name)}

\* One entry of the call history.
\* status: "ok", "not_found" (404), "conflict" (409) or "error" (any other failure).
Call(op, crd, namespace, name, status, finalizers, rv) ==
    [op |-> op, crd |-> crd, namespace |-> namespace, name |-> name,
     status |-> status, finalizers |-> finalizers, rv |-> rv]

Err(msg, crd) == [msg |-> msg, crd |-> crd]

NoRun == [calls |-> <<>>, result |-> "none"]

NoObject == [namespace |-> "", name |-> "", finalizers |-> NoneSeq, rv |-> 0]

-----------------------------------------------------------------------------
\* Initial states: the cluster before the run, the task before its first await.

Other == "other.io/keep"
InstNames == <<"i1", "i2", "i3", "i4", "i5", "i6">>

Kinds ==
    { [ns |-> Some("ns1"), fin |-> NoneSeq],
      [ns |-> Some("ns1"), fin |-> Some(<<>>)],
      [ns |-> Some("ns1"), fin |-> Some(<<Other>>)],
      [ns |-> Some("ns1"), fin |-> Some(<<Other, TargetFinalizer>>)],
      [ns |-> NoneStr, fin |-> Some(<<TargetFinalizer>>)] }

SeqsUpTo(S, n) == UNION {[1..k -> S] : k \in 0..n}

MkCrs(kl) ==
    [i \in 1..Len(kl) |->
        [namespace |-> kl[i].ns, name |-> Some(InstNames[i]),
         finalizers |-> kl[i].fin, rv |-> 1]]

OneCr(fin) == MkCrs(<<[ns |-> Some("ns1"), fin |-> fin]>>)

LabelSets == SUBSET {HostLabel, MemberLabel}

Version(n, sv, st) == [name |-> n, served |-> sv, storage |-> st]
WellFormed == <<Version("v1", TRUE, TRUE)>>
NoStorage == <<Version("v1", TRUE, FALSE)>>
VersionEntries == [name : {"v1", "v2"}, served : BOOLEAN, storage : BOOLEAN]
Tokens == {TargetFinalizer, Other, "a"}

Crd(labels, versions) == [labels |-> labels, versions |-> versions, present |-> TRUE]

\* The task before Client::try_default().
InitTask ==
    /\ pc = "connect"
    /\ result = "none"
    /\ host_crds = <<>>
    /\ member_crds = <<>>
    /\ pos = 0
    /\ seen = {}
    /\ version = NoneStr
    /\ items = <<>>
    /\ object = NoObject
    /\ calls = <<>>
    /\ errs = <<>>
    /\ prev = NoRun
    /\ ext = 0

\* Runs: two CRDs with any labels, well formed or without a storage version,
\* the first with any short list of instances.
InitRun ==
    /\ webhooks \in SUBSET {WebhookName}
    /\ \E l1 \in LabelSets, l2 \in LabelSets,
          v1 \in {WellFormed, NoStorage}, v2 \in {WellFormed, NoStorage} :
            crds = [n \in CrdNames |-> IF n = "c1" THEN Crd(l1, v1) ELSE Crd(l2, v2)]
    /\ \E kl \in SeqsUpTo(Kinds, MaxInst) :
            crs = [n \in CrdNames |->
                     IF n = "c1" THEN MkCrs(kl) ELSE OneCr(Some(<<TargetFinalizer>>))]

\* Finalizer lists: one instance with any finalizer list up to MaxLen.
InitFinalizers ==
    /\ webhooks = {WebhookName}
    /\ crds = [n \in CrdNames |->
                 IF n = "c1" THEN Crd({HostLabel}, WellFormed) ELSE Crd({}, WellFormed)]
    /\ \E L \in SeqsUpTo(Tokens, MaxLen) :
            crs = [n \in CrdNames |-> IF n = "c1" THEN OneCr(Some(L)) ELSE <<>>]

\* Version lists: one CRD with any version list up to MaxVersions.
InitVersions ==
    /\ webhooks = {WebhookName}
    /\ \E vs \in SeqsUpTo(VersionEntries, MaxVersions) :
            crds = [n \in CrdNames |->
                      IF n = "c1" THEN Crd({MemberLabel}, vs) ELSE Crd({}, WellFormed)]
    /\ crs = [n \in CrdNames |->
                IF n = "c1" THEN OneCr(Some(<<TargetFinalizer>>)) ELSE <<>>]

Init == InitTask /\ (InitRun \/ InitFinalizers \/ InitVersions)

\* Runs beside other clients: two well-formed CRDs, the first under both
\* labels, with any short list of namespaced instances.
ExtKinds ==
    { [ns |-> Some("ns1"), fin |-> NoneSeq],
      [ns |-> Some("ns1"), fin |-> Some(<<Other, TargetFinalizer>>)] }

InitExt ==
    /\ InitTask
    /\ webhooks = {WebhookName}
    /\ crds = [n \in CrdNames |->
                 IF n = "c1" THEN Crd({HostLabel, MemberLabel}, WellFormed)
                 ELSE Crd({MemberLabel}, WellFormed)]
    /\ \E kl \in SeqsUpTo(ExtKinds, MaxInst) :
            crs = [n \in CrdNames |->
                     IF n = "c1" THEN MkCrs(kl) ELSE OneCr(Some(<<TargetFinalizer>>))]


-----------------------------------------------------------------------------
\* The run. Every action is one awaited call and the synchronous code that
\* follows it up to the next await.

\* The crd the for loop of run() is at.
cur == chain(host_crds, member_crds)[pos]

\* A delete whose error is dropped instead of propagated with `?`.
delete_is_ok_any(status) == TRUE

\* Api::delete returns Ok(Either) for an accepted delete and Err for every
\* other answer of the server, 404 included; both arms of the Either only log.
delete_is_ok(status) == status = "ok"

\* An error of patch_crs propagated with `?`: the run ends at once.
propagate_patch_err == pc' = "done"

\* let _ = patch_crs(..).await.inspect_err(..): an error of patch_crs is logged
\* and dropped, run() goes on to remove_crd.
swallow_patch_err == pc' = "remove_crd"

\* The head of the for loop of run() from position p of the chain, and the code
\* up to the next await: the next unique crd, the resolution of its storage
\* version in patch_crs, and, when that fails, the error! records; without a
\* next crd run() returns Ok(()).
loop_head(ch, p, used, log) ==
    LET i == next_unique(ch, p, used) IN
    IF i = 0
    THEN /\ pc' = "done"
         /\ result' = "Ok"
         /\ pos' = Len(ch) + 1
         /\ seen' = used
         /\ version' = NoneStr
         /\ errs' = log
    ELSE LET v == find_storage(ch[i].versions) IN
         /\ pos' = i
         /\ seen' = used \cup {ch[i].name}
         /\ version' = v
         /\ result' = result
         /\ IF v.some
            THEN pc' = "list_cr" /\ errs' = log
            ELSE /\ swallow_patch_err
                 /\ errs' = log \o
                        <<Err("failed to find storage version of crd", ch[i].name),
                          Err("Failed to update CRs for resource", ch[i].name)>>

\* An error that is dropped: the run goes on with what it has.
bail_swallowed ==
    /\ pc' = "list_member"
    /\ result' = result

\* run() returns the error of a `?`.
bail ==
    /\ pc' = "done"
    /\ result' = "Err"

\* Client::try_default().await?
run_connect ==
    /\ UNCHANGED env
    /\ pc = "connect"
    /\ \/ pc' = "remove_webhook" /\ result' = result
       \/ bail
    /\ UNCHANGED <<cluster, host_crds, member_crds, pos, seen, version, items,
                   object, calls, errs>>

\* remove_webhook_configs(&client).await.wrap_err(..)?
\* status "ok" stands for both arms of the Either (deleting, deleted).
remove_webhook_configs ==
    /\ UNCHANGED env
    /\ pc = "remove_webhook"
    /\ \E status \in {"ok", "not_found", "error"} :
        /\ status = "ok" => WebhookName \in webhooks
        /\ status = "not_found" => WebhookName \notin webhooks
        /\ calls' = Append(calls, Call("delete_webhook", "", "", WebhookName,
                                       status, NoneSeq, 0))
        /\ IF delete_is_ok(status)
           THEN /\ webhooks' = webhooks \ {WebhookName}
                /\ pc' = "list_host"
                /\ result' = result
           ELSE /\ bail
                /\ UNCHANGED webhooks
    /\ UNCHANGED <<crds, crs, host_crds, member_crds, pos, seen, version, items,
                   object, errs>>

\* let host_crds = crds.list(&host_lp).await?;
run_list_host ==
    /\ UNCHANGED env
    /\ pc = "list_host"
    /\ \/ /\ calls' = Append(calls, Call("list_crds", "", "", HostLabel, "ok", NoneSeq, 0))
          /\ host_crds' = api_list_crds(HostLabel)
          /\ pc' = "list_member"
          /\ result' = result
       \/ /\ calls' = Append(calls, Call("list_crds", "", "", HostLabel, "error", NoneSeq, 0))
          /\ bail
          /\ UNCHANGED host_crds
    /\ UNCHANGED <<cluster, member_crds, pos, seen, version, items, object, errs>>

\* let member_crds = crds.list(&member_lp).await?; and the entry of the loop
run_list_member ==
    /\ UNCHANGED env
    /\ pc = "list_member"
    /\ \/ /\ calls' = Append(calls, Call("list_crds", "", "", MemberLabel, "ok", NoneSeq, 0))
          /\ member_crds' = api_list_crds(MemberLabel)
          /\ loop_head(chain(host_crds, member_crds'), 1, {}, errs)
       \/ /\ calls' = Append(calls, Call("list_crds", "", "", MemberLabel, "error", NoneSeq, 0))
          /\ bail
          /\ UNCHANGED <<member_crds, pos, seen, version, errs>>
    /\ UNCHANGED <<cluster, host_crds, items, object>>

\* A loop that fetches only its first item and writes the others from what it holds.
after_item_no_fetch(rest) == IF rest = <<>> THEN "remove_crd" ELSE "replace"

\* A loop that leaves after its first item.
after_item_first_only(rest) == "remove_crd"

\* Where patch_crs goes after the item at the head of `items` is done.
after_item(rest) == IF rest = <<>> THEN "remove_crd" ELSE "get"

\* patch_crs: cr_api.list(&ListParams::default()).await.map_err(..)? and filter_map
patch_crs_list ==
    /\ UNCHANGED env
    /\ pc = "list_cr"
    /\ \E status \in {"ok", "not_found", "error"} :
        /\ status = "ok" => crds[cur.name].present /\ served(cur.name, version.v)
        /\ status = "not_found" => ~(crds[cur.name].present /\ served(cur.name, version.v))
        /\ calls' = Append(calls, Call("list_cr", cur.name, "", "", status, NoneSeq, 0))
        /\ IF status = "ok"
           THEN /\ items' = filter_map(crs[cur.name])
                /\ pc' = after_item(items')
                /\ errs' = errs
           ELSE /\ items' = <<>>
                /\ swallow_patch_err
                /\ errs' = errs \o
                       <<Err("failed to retrieve custom resources", cur.name),
                         Err("Failed to update CRs for resource", cur.name)>>
    /\ UNCHANGED <<cluster, result, host_crds, member_crds, pos, seen, version, object>>

\* patch_crs: api.get(name).await.map_err(..)?, the `if let Some(finalizers)` and
\* the filter of the finalizers
patch_crs_get ==
    /\ UNCHANGED env
    /\ pc = "get"
    /\ LET it == Head(items)
           found == cr_index(cur.name, it.namespace, it.name)
       IN \E status \in {"ok", "not_found", "error"} :
            /\ status = "ok" => found # {}
            /\ status = "not_found" => found = {}
            /\ IF status = "ok"
               THEN LET got == crs[cur.name][CHOOSE i \in found : TRUE] IN
                    /\ calls' = Append(calls, Call("get", cur.name, it.namespace, it.name,
                                                   status, got.finalizers, got.rv))
                    /\ errs' = errs
                    /\ IF got.finalizers.some
                       THEN /\ object' = [namespace |-> it.namespace, name |-> it.name,
                                          finalizers |-> Some(new_finalizers(got.finalizers.v)),
                                          rv |-> got.rv]
                            /\ items' = items
                            /\ pc' = "replace"
                       ELSE /\ object' = [namespace |-> it.namespace, name |-> it.name,
                                          finalizers |-> got.finalizers, rv |-> got.rv]
                            /\ items' = Tail(items)
                            /\ pc' = after_item(items')
               ELSE /\ calls' = Append(calls, Call("get", cur.name, it.namespace, it.name,
                                                   status, NoneSeq, 0))
                    /\ errs' = errs \o
                           <<Err("failed to retrieve object", cur.name),
                             Err("Failed to update CRs for resource", cur.name)>>
                    /\ object' = object
                    /\ items' = <<>>
                    /\ swallow_patch_err
    /\ UNCHANGED <<cluster, result, host_crds, member_crds, pos, seen, version>>

\* A server that accepts a replace whatever resourceVersion it carries.
rv_matches_any(crd, obj) == cr_index(crd, obj.namespace, obj.name) # {}

\* api.replace sends the object as fetched, metadata.resourceVersion included:
\* the server accepts it only while the stored object still has that version.
rv_matches(crd, obj) ==
    \E i \in cr_index(crd, obj.namespace, obj.name) : crs[crd][i].rv = obj.rv

\* A loop that tries the same item again until its replace succeeds.
rest_after_replace_retry(status, its) == IF status = "ok" THEN Tail(its) ELSE its

\* The items left after a replace: its error is only logged (inspect_err), the
\* loop goes on to the next item whatever the outcome.
rest_after_replace(status, its) == Tail(its)

\* patch_crs: let _ = api.replace(name, .., &object).await.inspect_err(..);
patch_crs_replace ==
    /\ UNCHANGED env
    /\ pc = "replace"
    /\ LET found == cr_index(cur.name, object.namespace, object.name)
           fresh == rv_matches(cur.name, object)
       IN \E status \in {"ok", "not_found", "conflict", "error"} :
            /\ status = "ok" => fresh
            /\ status = "not_found" => found = {}
            /\ status = "conflict" => found # {} /\ ~fresh
            /\ calls' = Append(calls, Call("replace", cur.name, object.namespace,
                                           object.name, status, object.finalizers,
                                           object.rv))
            /\ IF status = "ok"
               THEN /\ crs' = [crs EXCEPT ![cur.name] =
                                 [i \in 1..Len(@) |->
                                    IF i \in found
                                    THEN [@[i] EXCEPT !.finalizers = object.finalizers,
                                                      !.rv = @ + 1]
                                    ELSE @[i]]]
                    /\ errs' = errs
               ELSE /\ crs' = crs
                    /\ errs' = Append(errs, Err("failed to update finalizers", cur.name))
            /\ items' = rest_after_replace(status, items)
    /\ pc' = after_item(items')
    /\ UNCHANGED <<webhooks, crds, result, host_crds, member_crds, pos, seen,
                   version, object>>

\* remove_crd(&client, crd).await.wrap_err_with(..)? and the next turn of the loop.
\* A listed crd always has metadata.name, so the `if let Some(name)` is taken.
\* `present` is FALSE from the moment the server has accepted the delete.
remove_crd ==
    /\ UNCHANGED env
    /\ pc = "remove_crd"
    /\ \E status \in {"ok", "not_found", "error"} :
        /\ status = "ok" => crds[cur.name].present
        /\ status = "not_found" => ~crds[cur.name].present
        /\ calls' = Append(calls, Call("delete_crd", cur.name, "", cur.name,
                                       status, NoneSeq, 0))
        /\ IF delete_is_ok(status)
           THEN /\ crds' = [crds EXCEPT ![cur.name].present = FALSE]
                /\ loop_head(chain(host_crds, member_crds), pos + 1, seen, errs)
           ELSE /\ bail
                /\ UNCHANGED <<crds, pos, seen, version, errs>>
    /\ UNCHANGED <<webhooks, crs, host_crds, member_crds, items, object>>

Next ==
    \/ run_connect
    \/ remove_webhook_configs
    \/ run_list_host
    \/ run_list_member
    \/ patch_crs_list
    \/ patch_crs_get
    \/ patch_crs_replace
    \/ remove_crd

Spec == Init /\ [][Next]_vars

-----------------------------------------------------------------------------
\* A second run of the tool against the cluster the first run left.

\* main() is started again after run() has returned: a new task, the cluster
\* as it is.
rerun ==
    /\ pc = "done"
    /\ prev = NoRun
    /\ prev' = [calls |-> calls, result |-> result]
    /\ pc' = "connect"
    /\ result' = "none"
    /\ host_crds' = <<>>
    /\ member_crds' = <<>>
    /\ pos' = 0
    /\ seen' = {}
    /\ version' = NoneStr
    /\ items' = <<>>
    /\ object' = NoObject
    /\ calls' = <<>>
    /\ errs' = <<>>
    /\ UNCHANGED <<cluster, ext>>

NextTwice == Next \/ rerun

SpecTwice == Init /\ [][NextTwice]_vars

-----------------------------------------------------------------------------
\* Other clients of the API server, writing while the run is suspended at an
\* await.

Added == "ext.io/added"

\* The other clients write while run() is in its loop, to the instances of the
\* CRD it is at: what they wrote before is a cluster the run starts from, and
\* the run never reads an instance of a CRD again after that CRD's turn.
InLoop == pc \in {"list_cr", "get", "replace", "remove_crd"}

\* Another client replaces an instance with one more finalizer: the server
\* stores it under a new resourceVersion.
external_write ==
    /\ InLoop
    /\ ext < MaxExt
    /\ ext' = ext + 1
    /\ \E k \in 1..Len(crs[cur.name]) :
            crs' = [crs EXCEPT ![cur.name][k] =
                      [@ EXCEPT !.rv = @ + 1,
                                !.finalizers =
                                    Some((IF @.some THEN @.v ELSE <<>>) \o <<Added>>)]]
    /\ UNCHANGED <<webhooks, crds, pc, result, host_crds, member_crds, pos, seen,
                   version, items, object, calls, errs, prev>>

\* Another client creates an instance of the CRD, while it still exists.
external_create ==
    /\ InLoop
    /\ ext < MaxExt
    /\ ext' = ext + 1
    /\ LET n == cur.name IN
         /\ crds[n].present
         /\ Len(crs[n]) < Len(InstNames)
         /\ crs' = [crs EXCEPT ![n] =
                      Append(@, [namespace |-> Some("ns1"),
                                 name |-> Some(InstNames[Len(@) + 1]),
                                 finalizers |-> Some(<<TargetFinalizer>>), rv |-> 1])]
    /\ UNCHANGED <<webhooks, crds, pc, result, host_crds, member_crds, pos, seen,
                   version, items, object, calls, errs, prev>>

NextExt == Next \/ external_write \/ external_create

\* Every call of the run returns in the end: the run takes its next step
\* whenever it has one.
SpecExt == InitExt /\ [][NextExt]_vars /\ WF_vars(Next)


-----------------------------------------------------------------------------
\* Vocabulary of the properties.

Done == pc = "done"
CallIdx == 1..Len(calls)
InstanceOps == {"list_cr", "get", "replace"}
LaterOps == {"list_crds", "list_cr", "get", "replace", "delete_crd"}
Labelled(n) == crds[n].labels # {}
HasStorage(n) == \E k \in 1..Len(crds[n].versions) : crds[n].versions[k].storage
Holds(fin, token) == fin.some /\ \E k \in 1..Len(fin.v) : fin.v[k] = token
Issued(op, crd) == \E i \in CallIdx : calls[i].op = op /\ calls[i].crd = crd

\* The client was built, run() has returned and no call failed.
AllSucceeded ==
    /\ Done
    /\ calls # <<>>
    /\ \A i \in CallIdx : calls[i].status = "ok"

Stripped(n) ==
    \A k \in 1..Len(crs[n]) :
        crs[n][k].namespace.some => ~Holds(crs[n][k].finalizers, TargetFinalizer)

\* C1 as stated: after a run in which every API call succeeded, no namespaced
\* instance of any labelled CRD holds the target finalizer, and a delete was
\* issued for every labelled CRD and for the webhook configuration.
C1_AsStated ==
    AllSucceeded =>
        /\ \A n \in CrdNames : Labelled(n) => Stripped(n) /\ Issued("delete_crd", n)
        /\ Issued("delete_webhook", "")

\* C1 amended: after a run in which every API call succeeded, no namespaced
\* instance of a labelled CRD that has a version flagged storage holds the
\* target finalizer, and a delete was issued for every labelled CRD and for
\* the webhook configuration.
C1_RunStripsAndDeletes ==
    AllSucceeded =>
        /\ \A n \in CrdNames :
              Labelled(n) => /\ HasStorage(n) => Stripped(n)
                             /\ Issued("delete_crd", n)
        /\ Issued("delete_webhook", "")

\* A run without a failure that fetched the token on two instances of c1,
\* removed it, and deleted both CRDs.
C1_Witness ==
    /\ AllSucceeded
    /\ Issued("delete_crd", "c1") /\ Issued("delete_crd", "c2")
    /\ \E i \in CallIdx, j \in CallIdx :
          /\ i < j
          /\ calls[i].op = "get" /\ calls[i].crd = "c1"
          /\ Holds(calls[i].finalizers, TargetFinalizer)
          /\ calls[j].op = "get" /\ calls[j].crd = "c1"
          /\ Holds(calls[j].finalizers, TargetFinalizer)

\* C2: every call other than the webhook delete comes after a webhook delete
\* that was the first call and succeeded; after a failed webhook delete no
\* other call is in the history.
C2_WebhookFirst ==
    \A i \in CallIdx :
        calls[i].op \in LaterOps =>
            /\ i > 1
            /\ calls[1].op = "delete_webhook"
            /\ calls[1].status = "ok"

\* The run is past the webhook delete and has patched an instance and deleted a CRD.
C2_Witness ==
    /\ \E i \in CallIdx : calls[i].op = "replace"
    /\ \E i \in CallIdx : calls[i].op = "delete_crd"
    /\ \E i \in CallIdx : calls[i].op = "list_crds"

\* C3: no list, get or replace on the instances of a CRD follows the delete
\* call of that CRD.
C3_InstancesBeforeDelete ==
    \A i \in CallIdx, j \in CallIdx :
        (i < j /\ calls[i].op = "delete_crd") =>
            ~(calls[j].op \in InstanceOps /\ calls[j].crd = calls[i].crd)

\* A CRD carried by both lists was patched and deleted, and the run went on to
\* the instances of the other CRD.
C3_Witness ==
    \E i \in CallIdx, j \in CallIdx, k \in CallIdx :
        /\ i < j /\ j < k
        /\ calls[i].op = "replace" /\ calls[j].op = "delete_crd"
        /\ calls[i].crd = calls[j].crd
        /\ crds[calls[j].crd].labels = {HostLabel, MemberLabel}
        /\ calls[k].op = "get" /\ calls[k].crd # calls[j].crd


\* The position in the cluster's list of the instance a get or replace names.
InstPos(c) ==
    CHOOSE k \in 1..Len(crs[c.crd]) :
        /\ crs[c.crd][k].namespace = Some(c.namespace)
        /\ crs[c.crd][k].name = Some(c.name)

Enumerated(n, k) == crs[n][k].namespace.some /\ crs[n][k].name.some

\* C4 as stated: when the get or the replace of an instance of a CRD failed,
\* every instance enumerated after it has been fetched by the time the patch
\* step of that CRD is over (its delete call is issued).
C4_AsStated ==
    \A i \in CallIdx, d \in CallIdx :
        ( /\ i < d
          /\ calls[i].op \in {"get", "replace"} /\ calls[i].status # "ok"
          /\ calls[d].op = "delete_crd" /\ calls[d].crd = calls[i].crd )
        => \A k \in 1..Len(crs[calls[i].crd]) :
              (k > InstPos(calls[i]) /\ Enumerated(calls[i].crd, k)) =>
                  \E g \in (i + 1)..(d - 1) :
                      /\ calls[g].op = "get" /\ calls[g].crd = calls[i].crd
                      /\ Some(calls[g].namespace) = crs[calls[i].crd][k].namespace
                      /\ Some(calls[g].name) = crs[calls[i].crd][k].name

\* The names of a sequence of crds, each at its first occurrence only.
RECURSIVE FirstOccurrences(_, _)
FirstOccurrences(list, had) ==
    IF list = <<>> THEN <<>>
    ELSE IF Head(list).name \in had THEN FirstOccurrences(Tail(list), had)
    ELSE <<Head(list).name>> \o FirstOccurrences(Tail(list), had \cup {Head(list).name})

ProcOrder == FirstOccurrences(host_crds \o member_crds, {})

Discovered ==
    Cardinality({i \in CallIdx : calls[i].op = "list_crds" /\ calls[i].status = "ok"}) = 2

FailedAt(n) ==
    \/ \E i \in CallIdx : calls[i].crd = n /\ calls[i].status # "ok"
    \/ \E i \in 1..Len(errs) : errs[i].crd = n

\* C5 as stated: once discovery has succeeded and the run is over, every CRD
\* that comes after a CRD with a failed step has had its patch step and its
\* delete call.
C5_AsStated ==
    (Done /\ Discovered) =>
        \A a \in 1..Len(ProcOrder), b \in 1..Len(ProcOrder) :
            (a < b /\ FailedAt(ProcOrder[a])) =>
                /\ Issued("delete_crd", ProcOrder[b])
                /\ HasStorage(ProcOrder[b]) => Issued("list_cr", ProcOrder[b])

Processing == pc \in {"list_cr", "get", "replace", "remove_crd"}

StorageEntries(versions) == {k \in 1..Len(versions) : versions[k].storage}

\* C6 as stated: the version resolved for the crd being processed is the name of
\* the one entry flagged storage when there is exactly one, and resolution
\* fails when there is none or more than one.
C6_AsStated ==
    Processing =>
        LET S == StorageEntries(cur.versions) IN
        IF Cardinality(S) = 1
        THEN version = Some(cur.versions[CHOOSE k \in S : TRUE].name)
        ELSE version = NoneStr

Unresolved(n) ==
    \E i \in 1..Len(errs) :
        errs[i].crd = n /\ errs[i].msg = "failed to find storage version of crd"

\* C7 as stated: no API call is ever issued for a CRD whose storage version
\* could not be resolved.
C7_AsStated ==
    \A n \in CrdNames : Unresolved(n) => \A i \in CallIdx : calls[i].crd # n

\* C8: the finalizer list of every replace is the list returned by the get just
\* before it, with all occurrences of the target token removed and every other
\* token kept in place, order and number; without the token it is the same list.
Kept(L) == {i \in 1..Len(L) : L[i] # TargetFinalizer}
Nth(S, k) == CHOOSE i \in S : Cardinality({j \in S : j <= i}) = k
WithoutTarget(L) == [k \in 1..Cardinality(Kept(L)) |-> L[Nth(Kept(L), k)]]

C8_WrittenListIsFetchedMinusTarget ==
    \A i \in CallIdx :
        calls[i].op = "replace" =>
            /\ i > 1
            /\ calls[i - 1].op = "get" /\ calls[i - 1].status = "ok"
            /\ calls[i - 1].crd = calls[i].crd
            /\ calls[i - 1].namespace = calls[i].namespace
            /\ calls[i - 1].name = calls[i].name
            /\ calls[i - 1].finalizers.some
            /\ calls[i].finalizers = Some(WithoutTarget(calls[i - 1].finalizers.v))
            /\ ~Holds(calls[i - 1].finalizers, TargetFinalizer)
                    => calls[i].finalizers = calls[i - 1].finalizers

\* A replace after a get that returned the target twice among duplicates of
\* another token.
C8_Witness ==
    \E i \in CallIdx :
        /\ i > 1
        /\ calls[i].op = "replace"
        /\ calls[i - 1].finalizers = Some(<<"a", TargetFinalizer, "a", TargetFinalizer>>)
        /\ calls[i].finalizers = Some(<<"a", "a">>)

\* C9 as stated: no replace is ever issued for an instance whose get returned
\* no finalizers, the list absent or empty.
C9_AsStated ==
    \A i \in CallIdx, j \in CallIdx :
        ( /\ calls[i].op = "get" /\ calls[i].status = "ok"
          /\ (~calls[i].finalizers.some \/ calls[i].finalizers.v = <<>>)
          /\ calls[j].op = "replace" )
        => ~( /\ calls[j].crd = calls[i].crd
              /\ calls[j].namespace = calls[i].namespace
              /\ calls[j].name = calls[i].name )

\* C10 as stated: a run whose last call is a delete answered "not found" did
\* not end with an error.
C10_AsStated ==
    ( /\ Done
      /\ calls # <<>>
      /\ calls[Len(calls)].op \in {"delete_webhook", "delete_crd"}
      /\ calls[Len(calls)].status = "not_found" )
    => result = "Ok"


-----------------------------------------------------------------------------
\* Properties of a second run, of the loop of run() and of the patch step.

Last(seq) == seq[Len(seq)]
Count(op, n) == Cardinality({i \in CallIdx : calls[i].op = op /\ calls[i].crd = n})

\* A call that changed the cluster: an accepted delete, or an accepted replace
\* whose finalizer list is not the one the get before it returned.
Mutates(i) ==
    \/ calls[i].op \in {"delete_webhook", "delete_crd"} /\ calls[i].status = "ok"
    \/ /\ calls[i].op = "replace" /\ calls[i].status = "ok"
       /\ i > 1 /\ calls[i].finalizers # calls[i - 1].finalizers

\* C11 as stated: a second run after a first run that ended Ok, with the
\* client built and no call lost to a transport error, ends Ok and issues no
\* call that changes the cluster.
C11_AsStated ==
    ( /\ Done
      /\ prev.result = "Ok"
      /\ calls # <<>>
      /\ \A i \in CallIdx : calls[i].status # "error" )
    => /\ result = "Ok"
       /\ \A i \in CallIdx : ~Mutates(i)

Names(list) == [i \in 1..Len(list) |-> list[i].name]
Range(seq) == {seq[i] : i \in 1..Len(seq)}

\* The host list, then the crds of the member list that are not in the host list.
ExpectedOrder ==
    LET member_only(n) == n \notin Range(Names(host_crds))
    IN Names(host_crds) \o SelectSeq(Names(member_crds), member_only)

IsDeleteCrd(c) == c.op = "delete_crd"
DeleteSeq == LET d == SelectSeq(calls, IsDeleteCrd) IN [i \in 1..Len(d) |-> d[i].crd]
IsPrefix(a, b) == Len(a) <= Len(b) /\ \A i \in 1..Len(a) : a[i] = b[i]
Passes(n) ==
    Cardinality({i \in 1..Len(errs) :
        errs[i].crd = n /\ errs[i].msg = "failed to find storage version of crd"})
    + Count("list_cr", n)

\* C12: in a run no CRD gets more than one patch pass or more than one delete
\* call; the delete calls follow the host list and then the member-only crds
\* of the member list, and a run that ends Ok has deleted each of them once.
C12_EachCrdOnceInOrder ==
    /\ \A n \in CrdNames : Passes(n) <= 1 /\ Count("delete_crd", n) <= 1
    /\ IsPrefix(DeleteSeq, ExpectedOrder)
    /\ (Done /\ result = "Ok") => DeleteSeq = ExpectedOrder

\* Both CRDs carry both labels and a run has processed c1, then c2, once each.
C12_Witness ==
    /\ Done /\ result = "Ok"
    /\ \A n \in CrdNames : crds[n].labels = {HostLabel, MemberLabel}
    /\ Len(host_crds) = 2 /\ Len(member_crds) = 2
    /\ DeleteSeq = <<"c1", "c2">>
    /\ Count("list_cr", "c1") = 1

\* C13: a failed discovery list is the last call of the run, the run has ended
\* with an error, and no instance call and no CRD delete was issued in it.
C13_DiscoveryFailureIsFatal ==
    \A i \in CallIdx :
        (calls[i].op = "list_crds" /\ calls[i].status # "ok") =>
            /\ i = Len(calls)
            /\ Done /\ result = "Err"
            /\ \A j \in CallIdx : calls[j].op \notin InstanceOps \cup {"delete_crd"}

\* The member list failed after the host list had returned a CRD.
C13_Witness ==
    /\ Len(calls) = 3
    /\ calls[2].op = "list_crds" /\ calls[2].status = "ok"
    /\ calls[3].op = "list_crds" /\ calls[3].status = "error"
    /\ host_crds # <<>>

\* C14 as stated, its second half: a run that ended with an error did not end
\* on a call for one CRD or for one instance.
C14_AsStated ==
    (Done /\ result = "Err" /\ calls # <<>>) =>
        Last(calls).op \notin {"list_cr", "get", "replace", "delete_crd"}

\* C15: the calls of the tool are the webhook delete, the lists, get, replace
\* and the CRD delete, never a delete of an instance; every replace carries
\* the namespace, the name and the resourceVersion of the get before it; and
\* no step adds or removes an instance, or changes the tokens other than the
\* target in any finalizer list, or turns an absent list into a present one.
FrameStep ==
    \A n \in CrdNames :
        /\ Len(crs'[n]) = Len(crs[n])
        /\ \A k \in 1..Len(crs[n]) :
              /\ crs'[n][k].namespace = crs[n][k].namespace
              /\ crs'[n][k].name = crs[n][k].name
              /\ crs'[n][k].finalizers.some = crs[n][k].finalizers.some
              /\ WithoutTarget(crs'[n][k].finalizers.v) = WithoutTarget(crs[n][k].finalizers.v)

ReplaceAsFetched ==
    \A i \in CallIdx :
        /\ calls[i].op \in {"delete_webhook", "list_crds", "list_cr", "get", "replace",
                            "delete_crd"}
        /\ calls[i].op = "replace" =>
              /\ i > 1 /\ calls[i - 1].op = "get"
              /\ calls[i].namespace = calls[i - 1].namespace
              /\ calls[i].name = calls[i - 1].name
              /\ calls[i].rv = calls[i - 1].rv

C15_PatchFrame == [][FrameStep]_vars /\ []ReplaceAsFetched

\* An accepted replace has left an instance with the other token alone.
C15_Witness ==
    /\ calls # <<>>
    /\ Last(calls).op = "replace" /\ Last(calls).status = "ok"
    /\ \E k \in 1..Len(crs["c1"]) :
          crs["c1"][k].finalizers = Some(<<Other>>) /\ crs["c1"][k].rv = 2

\* C16: every replace comes directly after a successful get of the same
\* instance and carries the resourceVersion that get returned and the
\* finalizer list that get returned, less the target token.
C16_FreshFetchBeforeWrite ==
    \A i \in CallIdx :
        calls[i].op = "replace" =>
            /\ i > 1
            /\ calls[i - 1].op = "get" /\ calls[i - 1].status = "ok"
            /\ calls[i - 1].crd = calls[i].crd
            /\ calls[i - 1].namespace = calls[i].namespace
            /\ calls[i - 1].name = calls[i].name
            /\ calls[i].rv = calls[i - 1].rv
            /\ calls[i - 1].finalizers.some
            /\ calls[i].finalizers = Some(WithoutTarget(calls[i - 1].finalizers.v))

\* A replace that carries what another client wrote before the get: a newer
\* resourceVersion and the token that client added.
C16_Witness ==
    /\ Len(calls) > 1
    /\ Last(calls).op = "replace" /\ Last(calls).status = "ok"
    /\ Last(calls).rv = 2
    /\ Last(calls).finalizers = Some(<<Other, Added>>)

\* The stored object still has the resourceVersion the held object was read at.
Current ==
    \E k \in 1..Len(crs[cur.name]) :
        /\ crs[cur.name][k].namespace = Some(object.namespace)
        /\ crs[cur.name][k].name = Some(object.name)
        /\ crs[cur.name][k].rv = object.rv

\* C17: a replace of an instance that another client wrote after the get is
\* rejected (a conflict, unless the call fails before the server answers): the
\* stored instances stay as they are, the failure is logged, and the loop
\* leaves that item for the next one or for remove_crd, without a second try.
ConflictStep ==
    (pc = "replace" /\ calls' # calls /\ ~Current) =>
        /\ Last(calls').op = "replace"
        /\ Last(calls').status \in {"conflict", "error"}
        /\ crs' = crs
        /\ errs' = Append(errs, [msg |-> "failed to update finalizers", crd |-> cur.name])
        /\ items' = Tail(items)
        /\ pc' = IF Tail(items) = <<>> THEN "remove_crd" ELSE "get"

C17_ConflictIsLoggedAndSkipped == [][ConflictStep]_vars

\* A replace was answered with a conflict, the instance holds what the other
\* client added, and the run has fetched the next instance.
C17_Witness ==
    \E i \in CallIdx :
        /\ calls[i].op = "replace" /\ calls[i].status = "conflict"
        /\ \E k \in 1..Len(crs[calls[i].crd]) :
              /\ crs[calls[i].crd][k].name = Some(calls[i].name)
              /\ Holds(crs[calls[i].crd][k].finalizers, Added)
              /\ Holds(crs[calls[i].crd][k].finalizers, TargetFinalizer)
        /\ i < Len(calls)
        /\ calls[i + 1].op = "get" /\ calls[i + 1].name # calls[i].name

Max(S) == CHOOSE m \in S : \A x \in S : x <= m

AtMostOnce ==
    \A i \in CallIdx, j \in CallIdx :
        ( /\ i < j
          /\ calls[i].op \in {"get", "replace"}
          /\ calls[i].op = calls[j].op
          /\ calls[i].crd = calls[j].crd )
        => ~(calls[i].namespace = calls[j].namespace /\ calls[i].name = calls[j].name)

C20_RunTerminates == <>Done /\ []AtMostOnce

\* A run has ended after a write by another client that made a replace fail
\* with a conflict.
C20_Witness ==
    /\ Done
    /\ ext >= 1
    /\ \E i \in CallIdx : calls[i].op = "replace" /\ calls[i].status = "conflict"

====
